---- MODULE Spec2Model ----
(***************************************************************************)
(* kube-janitor: the clean-up pass of src/kube_janitor/janitor.py.         *)
(*                                                                         *)
(* The cluster is a set of API objects carrying annotations; clean_up      *)
(* lists namespaces and namespaced resources, filters them, and runs the   *)
(* TTL engine and the expiry engine on each of them.  Every cluster-API    *)
(* call the pass makes (namespace lookup, listing, delete, event creation, *)
(* update) may fail; what the code catches is logged, what it does not     *)
(* catch raises out of clean_up.                                           *)
(***************************************************************************)
EXTENDS Integers, Sequences, FiniteSets, TLC

VARIABLES
    now,          \* utcnow(), in seconds
    annotations,  \* cluster: object id -> its annotations
    live,         \* cluster: ids of the objects that still exist
    notes,        \* cluster: object id -> DeleteNotification events created
    lost,         \* ids of the objects for which an update of the flag failed
    retry,        \* the deletes that failed in earlier runs and left the object
                  \*   in the cluster: the object, the engine, the arguments
    pc,           \* position of clean_up: idle, namespaces, types, resources,
                  \*   returned, raised
    cfg,          \* the arguments of the current call of clean_up
    counter,      \* clean_up's Counter: label -> count
    namespaces,   \* the namespace objects still to handle (line 310)
    types,        \* the resource types still to list (line 358)
    already_seen, \* line 353
    filtered_resources, \* line 355, the part not yet handled
    calls,        \* the engine invocations and API calls of this run, in order
    listed,       \* per resource type index: "ok", "failed", "skipped"
    skipped,      \* ids of objects the Resource Filter rejected in this run
    failed,       \* cluster-API calls that failed in this run
    dry,          \* the outcome of the dry run just before this run, if any
    fIn,          \* inputs of one call of matches_resource_filter
    fOut          \* its result, <<>> before the call

vars == <<now, annotations, live, notes, lost, retry, pc, cfg, counter, namespaces, types,
          already_seen, filtered_resources, calls, listed, skipped, failed,
          dry, fIn, fOut>>

\* Python's None, and an annotation key that is not in the mapping
None == "<None>"
ABSENT == "<absent>"

TTL_ANNOTATION == "janitor/ttl"
EXPIRY_ANNOTATION == "janitor/expires"
NOTIFIED_ANNOTATION == "janitor/notified"
DEPLOY_ANNOTATION == "deployment-time"

----------------------------------------------------------------------------
(* Resource Filter                                                         *)

\* mutant: a blanket inclusion also overrides a blanket exclusion
matches_resource_filter_allOverrides(resource, include_resources, exclude_resources, include_namespaces, exclude_namespaces) ==
    LET resource_type_plural == resource.endpoint
        namespace == IF resource.kind = "Namespace" THEN resource.name
                     ELSE resource.namespace
        resource_included == "all" \in include_resources
                             \/ resource_type_plural \in include_resources
        namespace_included == "all" \in include_namespaces
                              \/ namespace \in include_namespaces
        resource_excluded == ("all" \in exclude_resources /\ ~resource_included)
                             \/ resource_type_plural \in exclude_resources
        namespace_excluded == ("all" \in exclude_namespaces /\ ~namespace_included)
                              \/ namespace \in exclude_namespaces
    IN  IF namespace = None THEN FALSE
        ELSE resource_included /\ ~resource_excluded
             /\ namespace_included /\ ~namespace_excluded

matches_resource_filter(resource, include_resources, exclude_resources, include_namespaces, exclude_namespaces) ==
    LET resource_type_plural == resource.endpoint
        namespace == IF resource.kind = "Namespace" THEN resource.name
                     ELSE resource.namespace
        resource_included == "all" \in include_resources
                             \/ resource_type_plural \in include_resources
        namespace_included == "all" \in include_namespaces
                              \/ namespace \in include_namespaces
        resource_excluded == ("all" \in exclude_resources
                              /\ resource_type_plural \notin include_resources)
                             \/ resource_type_plural \in exclude_resources
        namespace_excluded == ("all" \in exclude_namespaces
                               /\ namespace \notin include_namespaces)
                              \/ namespace \in exclude_namespaces
    IN  IF namespace = None THEN FALSE
        ELSE resource_included /\ ~resource_excluded
             /\ namespace_included /\ ~namespace_excluded

----------------------------------------------------------------------------
(* The cluster                                                             *)

\* Largest value of the clock
MaxTime == 3
\* DeleteNotification events counted per object
MaxNotes == 2
\* Cluster-API calls that may fail in one run
MaxFail == 1

Times == 0..MaxTime

\* A timestamp in the format "%Y-%m-%dT%H:%M:%SZ": second n is written "T<n>"
TimeStr == <<"T0", "T1", "T2", "T3", "T4", "T5", "T6", "T7", "T8", "T9">>

\* The objects of the cluster: two namespaces, a deployment and a pod
Meta ==
    <<[kind |-> "Namespace", endpoint |-> "namespaces", namespace |-> None, name |-> "n1", creationTimestamp |-> "T0"],
      [kind |-> "Namespace", endpoint |-> "namespaces", namespace |-> None, name |-> "n2", creationTimestamp |-> "T0"],
      [kind |-> "Deployment", endpoint |-> "deployments", namespace |-> "n1", name |-> "web", creationTimestamp |-> "T0"],
      [kind |-> "Pod", endpoint |-> "pods", namespace |-> "n2", name |-> "job", creationTimestamp |-> "T1"]>>

ObjIds == 1..Len(Meta)

\* get_namespaced_resource_types(api): deployments are served by two API versions
resource_types ==
    <<[kind |-> "Deployment", endpoint |-> "deployments", version |-> "extensions/v1beta1"],
      [kind |-> "Deployment", endpoint |-> "deployments", version |-> "apps/v1"],
      [kind |-> "Pod", endpoint |-> "pods", version |-> "v1"]>>

\* The names under which namespaces are known, in the order they are iterated
NamespaceNames == <<"n1", "n2">>

AnnotationKeys == {TTL_ANNOTATION, EXPIRY_ANNOTATION, NOTIFIED_ANNOTATION, DEPLOY_ANNOTATION}

\* The annotations of an object: every key, ABSENT where the object has none
Annotated(ttl, expires, deploy) ==
    [k \in AnnotationKeys |->
        CASE k = TTL_ANNOTATION -> ttl
          [] k = EXPIRY_ANNOTATION -> expires
          [] k = DEPLOY_ANNOTATION -> deploy
          [] OTHER -> ABSENT]

\* The annotations an object may have been created with
InitialAnnotations(o) ==
    CASE o = 1 -> {Annotated(ABSENT, ABSENT, ABSENT), Annotated("1s", ABSENT, ABSENT),
                   Annotated(ABSENT, "T2", ABSENT)}
      [] o = 2 -> {Annotated(ABSENT, ABSENT, ABSENT)}
      [] o = 3 -> {Annotated(ttl, ABSENT, ABSENT) : ttl \in {ABSENT, "", "bad", "forever", "0s", "1s"}}
                  \cup {Annotated("1s", ABSENT, d) : d \in {"bad", "T1"}}
                  \cup {Annotated(ttl, e, ABSENT) : ttl \in {ABSENT, "1s"}, e \in {"bad", "T2"}}
                  \cup {Annotated("1s", "T2", "T1")}
      [] OTHER -> {Annotated(ABSENT, ABSENT, ABSENT), Annotated("bad", ABSENT, ABSENT),
                   Annotated(ABSENT, "T2", ABSENT), Annotated(ABSENT, ABSENT, "T0")}

\* the object as pykube returns it: metadata and the annotations `a`
Resource(o, a, version) ==
    [id |-> o, kind |-> Meta[o].kind, endpoint |-> Meta[o].endpoint,
     namespace |-> Meta[o].namespace, name |-> Meta[o].name, version |-> version,
     creationTimestamp |-> Meta[o].creationTimestamp, annotations |-> a]

\* dict.get(key): None when the key is absent
Get(a, key) == IF a[key] = ABSENT THEN None ELSE a[key]

\* Python truthiness of an Optional[str]
Truthy(v) == v # None /\ v # ""

----------------------------------------------------------------------------
(* helper.py: parse_ttl, parse_expiry; datetime.strptime                   *)

Parsed(n) == [ok |-> TRUE, val |-> n]
ValueError == [ok |-> FALSE, val |-> 0]

parse_time(timestamp) ==
    IF \E n \in 1..Len(TimeStr) : TimeStr[n] = timestamp
    THEN Parsed((CHOOSE n \in 1..Len(TimeStr) : TimeStr[n] = timestamp) - 1)
    ELSE ValueError

parse_expiry(expiry) == parse_time(expiry)

parse_ttl(ttl) ==
    CASE ttl = "forever" -> Parsed(-1)
      [] ttl = "0s" -> Parsed(0)
      [] ttl = "1s" -> Parsed(1)
      [] ttl = "2s" -> Parsed(2)
      [] ttl = "3s" -> Parsed(3)
      [] OTHER -> ValueError

----------------------------------------------------------------------------
(* Deployment-Time Resolver, Notification State Machine, Deletion Executor *)

\* One entry of the run's log: an engine being entered ("invoke") or left
\* ("return", with the labels of the counter it returns), or one of
\* create_event ("event"), delete ("delete"), add_notification_flag ("update")
\* being called.  sent: the cluster-API call was made; ok: it succeeded.
Entry(op, path, resource, reason, sent, ok, labels) ==
    [op |-> op, path |-> path, obj |-> resource.id, reason |-> reason,
     sent |-> sent, ok |-> ok, labels |-> labels]

\* Counter labels
Label(prefix, suffix) == <<prefix, suffix>>
PROCESSED == Label("resources", "processed")

\* mutant: a parsed annotation replaces the creation time even when it is earlier
get_deployment_time_annotationWins(resource, deployment_time_annotation) ==
    LET creation_timestamp == parse_time(resource.creationTimestamp).val
        deployment_time == IF deployment_time_annotation # None
                           THEN Get(resource.annotations, deployment_time_annotation)
                           ELSE None
    IN  IF deployment_time_annotation # None /\ Truthy(deployment_time)
           /\ parse_time(deployment_time).ok
        THEN parse_time(deployment_time).val
        ELSE creation_timestamp

get_deployment_time(resource, deployment_time_annotation) ==
    LET creation_timestamp == parse_time(resource.creationTimestamp).val
        deployment_time == IF deployment_time_annotation # None
                           THEN Get(resource.annotations, deployment_time_annotation)
                           ELSE None
    IN  IF deployment_time_annotation # None /\ Truthy(deployment_time)
           /\ parse_time(deployment_time).ok
        THEN IF parse_time(deployment_time).val > creation_timestamp
             THEN parse_time(deployment_time).val ELSE creation_timestamp
        ELSE creation_timestamp

\* mutant: the lead time is taken twice
get_delete_notification_time_twice(expiry_timestamp, delete_notification) ==
    expiry_timestamp - 2 * delete_notification

get_delete_notification_time(expiry_timestamp, delete_notification) ==
    expiry_timestamp - delete_notification

\* mutant: the flag is not looked at
was_notified_never(resource) == FALSE

was_notified(resource) == resource.annotations[NOTIFIED_ANNOTATION] # ABSENT

\* The outcome of a function that works on the resource: the resource as it
\* leaves it, the calls made, and whether an exception escaped
Outcome(resource, log, raised) == [resource |-> resource, calls |-> log, raised |-> raised]

\* mutant: the flag is written to the cluster object only, not to the object in hand
add_notification_flag_clusterOnly(resource, dry_run, path, fail) ==
    IF dry_run
    THEN Outcome(resource, <<Entry("update", path, resource, "", FALSE, TRUE, {})>>, FALSE)
    ELSE Outcome(resource,
                 <<Entry("update", path, resource, "", TRUE, "update" \notin fail, {})>>,
                 "update" \in fail)

\* path: the engine calling; fail: the cluster-API calls that fail
add_notification_flag(resource, dry_run, path, fail) ==
    IF dry_run
    THEN Outcome(resource, <<Entry("update", path, resource, "", FALSE, TRUE, {})>>, FALSE)
    ELSE Outcome([resource EXCEPT !.annotations[NOTIFIED_ANNOTATION] = "yes"],
                 <<Entry("update", path, resource, "", TRUE, "update" \notin fail, {})>>,
                 "update" \in fail)

create_event(resource, reason, dry_run, path, fail) ==
    <<Entry("event", path, resource, reason, ~dry_run, dry_run \/ "event" \notin fail, {})>>

\* mutant: the flag is written only when the event was created
send_delete_notification_eventGuardsFlag(resource, dry_run, path, fail) ==
    LET flag == add_notification_flag(resource, dry_run, path, fail)
    IN  IF ~dry_run /\ "event" \in fail
        THEN Outcome(resource, create_event(resource, "DeleteNotification", dry_run, path, fail), FALSE)
        ELSE Outcome(flag.resource,
                     create_event(resource, "DeleteNotification", dry_run, path, fail) \o flag.calls,
                     flag.raised)

send_delete_notification(resource, dry_run, path, fail) ==
    LET flag == add_notification_flag(resource, dry_run, path, fail)
    IN  Outcome(flag.resource,
                create_event(resource, "DeleteNotification", dry_run, path, fail) \o flag.calls,
                flag.raised)

\* mutant: the delete call is made in a dry run too
delete_ignoresDryRun(resource, dry_run, path, gone, fail) ==
    <<Entry("delete", path, resource, "", TRUE, "delete" \notin fail /\ ~gone, {})>>

\* gone: the object was deleted earlier in this run
delete(resource, dry_run, path, gone, fail) ==
    <<Entry("delete", path, resource, "", ~dry_run,
            dry_run \/ ("delete" \notin fail /\ ~gone), {})>>

----------------------------------------------------------------------------
(* Rule Matcher, TTL Decision Engine, Expiry Decision Engine               *)

\* A rule: its id, its TTL and the resources its predicate accepts
RuleList ==
    <<[id |-> "a", ttl |-> "1s", endpoints |-> {"pods"}],
      [id |-> "b", ttl |-> "3s", endpoints |-> {"pods", "deployments"}]>>

\* rule.matches(resource, context)
matches(rule, resource) == resource.endpoint \in rule.endpoints

\* mutant: the loop does not stop at the first rule that matches
FirstMatch_lastWins(rules, resource) ==
    IF \E i \in 1..Len(rules) : matches(rules[i], resource)
    THEN CHOOSE i \in 1..Len(rules) :
            /\ matches(rules[i], resource)
            /\ \A j \in (i + 1)..Len(rules) : ~matches(rules[j], resource)
    ELSE 0

\* the for loop of lines 196-205: the index of the first rule that matches, or 0
FirstMatch(rules, resource) ==
    IF \E i \in 1..Len(rules) : matches(rules[i], resource)
    THEN CHOOSE i \in 1..Len(rules) :
            /\ matches(rules[i], resource)
            /\ \A j \in 1..(i - 1) : ~matches(rules[j], resource)
    ELSE 0

\* What an engine returns: as Outcome, with the counter (the labels it sets to 1)
Result(resource, log, labels, raised) ==
    [resource |-> resource, calls |-> log, counter |-> labels, raised |-> raised]

\* The engine's log: entered, the calls, and left unless an exception escaped
Engine(path, resource, out, labels) ==
    Result(out.resource,
           <<Entry("invoke", path, resource, "", FALSE, TRUE, {})>> \o out.calls
             \o (IF out.raised THEN <<>>
                 ELSE <<Entry("return", path, resource, "", FALSE, TRUE, labels)>>),
           labels, out.raised)

RECURSIVE Consulted(_, _, _)
\* the calls of rule.matches made by the for loop of lines 196-205 from rule i
\* on, in order (the loop breaks on the first that returns true); the entry
\* has the id of the rule for its reason and the value returned for ok
Consulted(rules, resource, i) ==
    IF i > Len(rules) THEN <<>>
    ELSE <<Entry("matches", "ttl", resource, rules[i].id, FALSE, matches(rules[i], resource), {})>>
         \o (IF matches(rules[i], resource) THEN <<>> ELSE Consulted(rules, resource, i + 1))

\* lines 195-205: get_resource_context is called, then the rules are consulted
Lookup(rules, resource) ==
    <<Entry("context", "ttl", resource, "", FALSE, TRUE, {})>> \o Consulted(rules, resource, 1)

\* mutant: a TTL of zero seconds counts as a TTL
handle_resource_on_ttl_zeroIsPositive(resource, rules, delete_notification, deployment_time_annotation, dry_run, t, gone, fail) ==
    LET annotation == Get(resource.annotations, TTL_ANNOTATION)
        m == IF Truthy(annotation) THEN 0 ELSE FirstMatch(rules, resource)
        ttl == IF Truthy(annotation) THEN annotation
               ELSE IF m > 0 THEN rules[m].ttl ELSE annotation
        counter0 == {PROCESSED} \cup (IF m > 0 THEN {Label("rule", rules[m].id)} ELSE {})
        ttl_seconds == parse_ttl(ttl)
        deployment_time == get_deployment_time(resource, deployment_time_annotation)
        age == t - deployment_time
        expiry_time == deployment_time + ttl_seconds.val
        notification_time == get_delete_notification_time(expiry_time, delete_notification)
        lookup == IF Truthy(annotation) THEN <<>> ELSE Lookup(rules, resource)
        nothing == Outcome(resource, lookup, FALSE)
        notified == send_delete_notification(resource, dry_run, "ttl", fail)
    IN  IF ~Truthy(ttl) \/ ~ttl_seconds.ok \/ ttl_seconds.val < 0
        THEN Engine("ttl", resource, nothing, counter0)
        ELSE IF age > ttl_seconds.val
        THEN Engine("ttl", resource,
                    Outcome(resource,
                            lookup \o
                            (IF delete_notification # 0
                             THEN create_event(resource, "TimeToLiveExpired", dry_run, "ttl", fail)
                             ELSE <<>>)
                              \o delete(resource, dry_run, "ttl", gone, fail),
                            FALSE),
                    counter0 \cup {Label(resource.endpoint, "with-ttl"),
                                   Label(resource.endpoint, "deleted")})
        ELSE IF delete_notification # 0 /\ t > notification_time /\ ~was_notified(resource)
        THEN Engine("ttl", resource,
                    Outcome(notified.resource, lookup \o notified.calls, notified.raised),
                    counter0 \cup {Label(resource.endpoint, "with-ttl")})
        ELSE Engine("ttl", resource, nothing,
                    counter0 \cup {Label(resource.endpoint, "with-ttl")})

\* t: utcnow()
handle_resource_on_ttl(resource, rules, delete_notification, deployment_time_annotation, dry_run, t, gone, fail) ==
    LET annotation == Get(resource.annotations, TTL_ANNOTATION)
        m == IF Truthy(annotation) THEN 0 ELSE FirstMatch(rules, resource)
        ttl == IF Truthy(annotation) THEN annotation
               ELSE IF m > 0 THEN rules[m].ttl ELSE annotation
        counter0 == {PROCESSED} \cup (IF m > 0 THEN {Label("rule", rules[m].id)} ELSE {})
        ttl_seconds == parse_ttl(ttl)
        deployment_time == get_deployment_time(resource, deployment_time_annotation)
        age == t - deployment_time
        expiry_time == deployment_time + ttl_seconds.val
        notification_time == get_delete_notification_time(expiry_time, delete_notification)
        lookup == IF Truthy(annotation) THEN <<>> ELSE Lookup(rules, resource)
        nothing == Outcome(resource, lookup, FALSE)
        notified == send_delete_notification(resource, dry_run, "ttl", fail)
    IN  IF ~Truthy(ttl) \/ ~ttl_seconds.ok \/ ttl_seconds.val <= 0
        THEN Engine("ttl", resource, nothing, counter0)
        ELSE IF age > ttl_seconds.val
        THEN Engine("ttl", resource,
                    Outcome(resource,
                            lookup \o
                            (IF delete_notification # 0
                             THEN create_event(resource, "TimeToLiveExpired", dry_run, "ttl", fail)
                             ELSE <<>>)
                              \o delete(resource, dry_run, "ttl", gone, fail),
                            FALSE),
                    counter0 \cup {Label(resource.endpoint, "with-ttl"),
                                   Label(resource.endpoint, "deleted")})
        ELSE IF delete_notification # 0 /\ t > notification_time /\ ~was_notified(resource)
        THEN Engine("ttl", resource,
                    Outcome(notified.resource, lookup \o notified.calls, notified.raised),
                    counter0 \cup {Label(resource.endpoint, "with-ttl")})
        ELSE Engine("ttl", resource, nothing,
                    counter0 \cup {Label(resource.endpoint, "with-ttl")})

handle_resource_on_expiry(resource, rules, delete_notification, dry_run, t, gone, fail) ==
    LET expiry == Get(resource.annotations, EXPIRY_ANNOTATION)
        expiry_timestamp == parse_expiry(expiry)
        notification_time == get_delete_notification_time(expiry_timestamp.val, delete_notification)
        nothing == Outcome(resource, <<>>, FALSE)
        with_expiry == {Label(resource.endpoint, "with-expiry")}
    IN  IF ~Truthy(expiry) \/ ~expiry_timestamp.ok
        THEN Engine("expiry", resource, nothing, {})
        ELSE IF t > expiry_timestamp.val
        THEN Engine("expiry", resource,
                    Outcome(resource,
                            (IF delete_notification # 0
                             THEN create_event(resource, "ExpiryTimeReached", dry_run, "expiry", fail)
                             ELSE <<>>)
                              \o delete(resource, dry_run, "expiry", gone, fail),
                            FALSE),
                    with_expiry \cup {Label(resource.endpoint, "deleted")})
        ELSE IF delete_notification # 0 /\ t > notification_time /\ ~was_notified(resource)
        THEN Engine("expiry", resource,
                    send_delete_notification(resource, dry_run, "expiry", fail), with_expiry)
        ELSE Engine("expiry", resource, nothing, with_expiry)

----------------------------------------------------------------------------
(* Orchestrator: clean_up                                                  *)

Arguments(include_resources, exclude_resources, include_namespaces, exclude_namespaces, deployment_time_annotation, delete_notification, dry_run) ==
    [include_resources |-> include_resources, exclude_resources |-> exclude_resources,
     include_namespaces |-> include_namespaces, exclude_namespaces |-> exclude_namespaces,
     rules |-> RuleList, delete_notification |-> delete_notification,
     deployment_time_annotation |-> deployment_time_annotation, dry_run |-> dry_run]

\* The notification lead times clean_up is called with: off, or two seconds
LeadTimes == {0, 2}

\* The arguments clean_up is called with
Configs ==
    UNION {{Arguments({"all"}, {}, {"all"}, {}, DEPLOY_ANNOTATION, n, d),
            Arguments({"all"}, {"pods"}, {"all"}, {"n2"}, None, n, d),
            Arguments({"deployments", "pods"}, {"all"}, {"n1", "n2"}, {"all"}, DEPLOY_ANNOTATION, n, d),
            Arguments({"all"}, {"all"}, {"all"}, {}, None, n, d),
            Arguments({"namespaces"}, {}, {"all"}, {}, None, n, d),
            Arguments({"namespace", "namespaces"}, {}, {"n1"}, {}, None, n, d)}
           : n \in LeadTimes, d \in BOOLEAN}

Endpoints == {Meta[o].endpoint : o \in ObjIds}

Labels ==
    {PROCESSED} \cup {Label(e, x) : e \in Endpoints, x \in {"with-ttl", "with-expiry", "deleted"}}
    \cup {Label("rule", RuleList[i].id) : i \in 1..Len(RuleList)}

\* mutant: the counts of a dict replace those of the counter, as dict.update does
Update_assigns(c, dicts) ==
    [l \in Labels |-> IF \E i \in 1..Len(dicts) : l \in dicts[i] THEN 1 ELSE c[l]]

\* Counter.update(d) for each dict of `dicts`, a dict being the labels it sets to 1
Update(c, dicts) ==
    [l \in Labels |-> c[l] + Cardinality({i \in 1..Len(dicts) : l \in dicts[i]})]

RECURSIVE Sorted(_)
\* the ids of S in ascending order: the order in which the API lists objects
Sorted(S) ==
    IF S = {} THEN <<>>
    ELSE LET m == CHOOSE x \in S : \A y \in S : x <= y
         IN  <<m>> \o Sorted(S \ {m})

RECURSIVE Concat(_)
Concat(seqs) == IF seqs = <<>> THEN <<>> ELSE Head(seqs) \o Concat(Tail(seqs))

\* lines 307-309
NamespaceInScope(c) ==
    ("all" \in c.include_resources /\ "namespace" \notin c.exclude_resources)
    \/ "namespace" \in c.include_resources

\* lines 359-361
TypeInScope(c, type) ==
    ("all" \in c.include_resources /\ type.endpoint \notin c.exclude_resources)
    \/ type.endpoint \in c.include_resources

\* mutant: only the kind-level check of lines 359-361 is made
Filter_kindLevelOnly(c, resource) ==
    ("all" \in c.include_resources /\ resource.endpoint \notin c.exclude_resources)
    \/ resource.endpoint \in c.include_resources

Filter(c, resource) ==
    matches_resource_filter(resource, c.include_resources, c.exclude_resources,
                            c.include_namespaces, c.exclude_namespaces)

\* the names of include_namespaces, in the order they are iterated
IncludedNames(c) == SelectSeq(NamespaceNames, LAMBDA n : n \in c.include_namespaces)

NamespaceIds(name) == {o \in live : Meta[o].kind = "Namespace" /\ Meta[o].name = name}

LiveNamespaces == Sorted({o \in live : Meta[o].kind = "Namespace"})

\* lines 312-317: whether listing or looking up the namespaces raises
NamespaceLookupRaises(c, lookup_fails) ==
    IF "all" \in c.include_namespaces THEN lookup_fails
    ELSE lookup_fails
         \/ \E i \in 1..Len(IncludedNames(c)) : NamespaceIds(IncludedNames(c)[i]) = {}

\* lines 312-317: the namespace objects
NamespaceObjects(c) ==
    IF "all" \in c.include_namespaces
    THEN [i \in 1..Len(LiveNamespaces) |->
            Resource(LiveNamespaces[i], annotations[LiveNamespaces[i]], "v1")]
    ELSE [i \in 1..Len(IncludedNames(c)) |->
            LET o == CHOOSE o \in NamespaceIds(IncludedNames(c)[i]) : TRUE
            IN  Resource(o, annotations[o], "v1")]

\* lines 363-370: the ids listed for one resource type, in order
ListIds(c, type) ==
    IF "all" \in c.include_namespaces
    THEN Sorted({o \in live : Meta[o].kind = type.kind})
    ELSE Concat([i \in 1..Len(IncludedNames(c)) |->
                   Sorted({o \in live : Meta[o].kind = type.kind
                                        /\ Meta[o].namespace = IncludedNames(c)[i]})])

\* the listing calls made for one resource type
ListingCalls(c) ==
    IF "all" \in c.include_namespaces THEN 1 ELSE Len(IncludedNames(c))

object_id(resource) == <<resource.kind, resource.namespace, resource.name>>

RECURSIVE Scan_everyOccurrence(_, _, _)
\* mutant: already_seen is not looked at
Scan_everyOccurrence(c, resources, st) ==
    IF resources = <<>> THEN st
    ELSE LET resource == Head(resources)
         IN  IF Filter(c, resource)
             THEN Scan_everyOccurrence(c, Tail(resources),
                       [st EXCEPT !.seen = @ \cup {object_id(resource)},
                                  !.filtered = Append(@, resource)])
             ELSE Scan_everyOccurrence(c, Tail(resources),
                       [st EXCEPT !.seen = @ \cup {object_id(resource)},
                                  !.skipped = @ \cup {resource.id}])

RECURSIVE Scan(_, _, _)
\* lines 372-390 over `resources`, from the state st = [seen, filtered, skipped]
Scan(c, resources, st) ==
    IF resources = <<>> THEN st
    ELSE LET resource == Head(resources)
         IN  IF object_id(resource) \in st.seen
             THEN Scan(c, Tail(resources), st)
             ELSE IF Filter(c, resource)
             THEN Scan(c, Tail(resources),
                       [st EXCEPT !.seen = @ \cup {object_id(resource)},
                                  !.filtered = Append(@, resource)])
             ELSE Scan(c, Tail(resources),
                       [st EXCEPT !.seen = @ \cup {object_id(resource)},
                                  !.skipped = @ \cup {resource.id}])

DeleteDone(log) ==
    \E i \in 1..Len(log) : log[i].op = "delete" /\ log[i].sent /\ log[i].ok

\* mutant: a delete call that fails ends the run
Handle_failedDeleteRaises(c, resource, t, gone, failTtl, failExpiry) ==
    LET ttl == handle_resource_on_ttl(resource, c.rules, c.delete_notification,
                                      c.deployment_time_annotation, c.dry_run, t, gone, failTtl)
        expiry == handle_resource_on_expiry(ttl.resource, c.rules, c.delete_notification,
                                            c.dry_run, t, gone \/ DeleteDone(ttl.calls), failExpiry)
        broken(log) == \E i \in 1..Len(log) : log[i].op = "delete" /\ log[i].sent /\ ~log[i].ok
    IN  IF ttl.raised \/ broken(ttl.calls)
        THEN [calls |-> ttl.calls, counters |-> <<>>, raised |-> TRUE]
        ELSE IF expiry.raised \/ broken(expiry.calls)
        THEN [calls |-> ttl.calls \o expiry.calls, counters |-> <<ttl.counter>>, raised |-> TRUE]
        ELSE [calls |-> ttl.calls \o expiry.calls,
              counters |-> <<ttl.counter, expiry.counter>>, raised |-> FALSE]

\* lines 327-347 and 397-413: both engines on one object
Handle(c, resource, t, gone, failTtl, failExpiry) ==
    LET ttl == handle_resource_on_ttl(resource, c.rules, c.delete_notification,
                                      c.deployment_time_annotation, c.dry_run, t, gone, failTtl)
        expiry == handle_resource_on_expiry(ttl.resource, c.rules, c.delete_notification,
                                            c.dry_run, t, gone \/ DeleteDone(ttl.calls), failExpiry)
    IN  IF ttl.raised
        THEN [calls |-> ttl.calls, counters |-> <<>>, raised |-> TRUE]
        ELSE IF expiry.raised
        THEN [calls |-> ttl.calls \o expiry.calls, counters |-> <<ttl.counter>>, raised |-> TRUE]
        ELSE [calls |-> ttl.calls \o expiry.calls,
              counters |-> <<ttl.counter, expiry.counter>>, raised |-> FALSE]

\* What the calls of `log` do to the cluster
Deleted(log) == {log[i].obj : i \in {j \in 1..Len(log) : log[j].op = "delete" /\ log[j].sent /\ log[j].ok}}
Flagged(log) == {log[i].obj : i \in {j \in 1..Len(log) : log[j].op = "update" /\ log[j].sent /\ log[j].ok}}
Unflagged(log) == {log[i].obj : i \in {j \in 1..Len(log) : log[j].op = "update" /\ log[j].sent /\ ~log[j].ok}}
\* the delete calls of `log` that failed and left the object in the cluster
Undeleted(log) ==
    {[obj |-> log[i].obj, path |-> log[i].path, cfg |-> cfg] :
        i \in {j \in 1..Len(log) : /\ log[j].op = "delete" /\ log[j].sent /\ ~log[j].ok
                                    /\ log[j].obj \in live \ Deleted(log)}}
Notified(log, o) ==
    Cardinality({i \in 1..Len(log) : log[i].op = "event" /\ log[i].sent /\ log[i].obj = o
                                     /\ log[i].reason = "DeleteNotification"})

Apply(log) ==
    /\ live' = live \ Deleted(log)
    /\ annotations' = [o \in ObjIds |->
                         IF o \in Flagged(log)
                         THEN [annotations[o] EXCEPT ![NOTIFIED_ANNOTATION] = "yes"]
                         ELSE annotations[o]]
    /\ notes' = [o \in ObjIds |-> notes[o] + Notified(log, o)]
    /\ lost' = lost \cup Unflagged(log)
    /\ retry' = retry \cup Undeleted(log)

Failures == SUBSET {"event", "delete", "update"}

ZeroCounter == [l \in Labels |-> 0]
Unlisted == [i \in 1..Len(resource_types) |-> "pending"]

Init ==
    /\ now = 0
    /\ annotations \in [ObjIds -> UNION {InitialAnnotations(o) : o \in ObjIds}]
    /\ \E o \in ObjIds :
          /\ annotations[o] \in InitialAnnotations(o)
          /\ \A p \in ObjIds \ {o} : annotations[p] = Annotated(ABSENT, ABSENT, ABSENT)
    /\ live = ObjIds
    /\ notes = [o \in ObjIds |-> 0]
    /\ lost = {}
    /\ retry = {}
    /\ pc = "idle"
    /\ cfg = CHOOSE c \in Configs : TRUE
    /\ counter = ZeroCounter
    /\ namespaces = <<>>
    /\ types = 1
    /\ already_seen = {}
    /\ filtered_resources = <<>>
    /\ calls = <<>>
    /\ listed = Unlisted
    /\ skipped = {}
    /\ failed = 0
    /\ dry = <<>>
    /\ fIn = <<>>
    /\ fOut = <<>>

\* the caller waits before it calls clean_up
Tick ==
    /\ pc = "idle"
    /\ now < MaxTime
    /\ now' = now + 1
    /\ UNCHANGED <<annotations, live, notes, lost, retry, pc, cfg, counter, namespaces, types,
                   already_seen, filtered_resources, calls, listed, skipped, failed, dry, fIn, fOut>>

\* lines 304-317 and 353-357: clean_up is entered with the arguments c
Begin(c, lookup_fails) ==
    /\ \A o \in ObjIds : notes[o] < MaxNotes
    /\ cfg' = c
    /\ counter' = ZeroCounter
    /\ calls' = <<>>
    /\ already_seen' = {}
    /\ filtered_resources' = <<>>
    /\ skipped' = {}
    /\ listed' = Unlisted
    /\ types' = 1
    /\ failed' = IF lookup_fails THEN 1 ELSE 0
    /\ IF NamespaceInScope(c)
       THEN /\ ListingCalls(c) = 0 => ~lookup_fails
            /\ IF NamespaceLookupRaises(c, lookup_fails)
               THEN /\ pc' = "raised"
                    /\ namespaces' = <<>>
               ELSE /\ namespaces' = NamespaceObjects(c)
                    /\ pc' = IF NamespaceObjects(c) = <<>> THEN "types" ELSE "namespaces"
       ELSE /\ ~lookup_fails
            /\ namespaces' = <<>>
            /\ pc' = "types"
    /\ UNCHANGED <<now, annotations, live, notes, lost, retry, fIn, fOut>>

\* the caller calls clean_up
StartRun(c, lookup_fails) ==
    /\ pc = "idle"
    /\ dry' = <<>>
    /\ Begin(c, lookup_fails)

\* the caller calls clean_up again, as before but with dry_run off, right after
\* a dry run returned
Twin(lookup_fails) ==
    /\ pc = "returned"
    /\ dry # <<>>
    /\ cfg.dry_run
    /\ dry' = dry
    /\ Begin([cfg EXCEPT !.dry_run = FALSE], lookup_fails)

\* the caller has the result of the run (the counter, or the exception); the
\* next run is in a second or later
Finish ==
    /\ pc \in {"returned", "raised"}
    /\ now < MaxTime
    /\ now' = now + 1
    /\ pc' = "idle"
    /\ cfg' = CHOOSE c \in Configs : TRUE
    /\ counter' = ZeroCounter
    /\ namespaces' = <<>>
    /\ types' = 1
    /\ already_seen' = {}
    /\ filtered_resources' = <<>>
    /\ calls' = <<>>
    /\ listed' = Unlisted
    /\ skipped' = {}
    /\ failed' = 0
    /\ dry' = <<>>
    /\ UNCHANGED <<annotations, live, notes, lost, retry, fIn, fOut>>

\* lines 319-349, one iteration
HandleNamespace(failTtl, failExpiry) ==
    /\ pc = "namespaces"
    /\ failed + Cardinality(failTtl) + Cardinality(failExpiry) <= MaxFail
    /\ LET namespace == Head(namespaces)
           h == Handle(cfg, namespace, now, namespace.id \notin live, failTtl, failExpiry)
       IN  IF Filter(cfg, namespace)
           THEN /\ calls' = calls \o h.calls
                /\ counter' = Update(counter, h.counters)
                /\ Apply(h.calls)
                /\ pc' = IF h.raised THEN "raised"
                         ELSE IF Tail(namespaces) = <<>> THEN "types" ELSE "namespaces"
                /\ skipped' = skipped
           ELSE /\ failTtl = {} /\ failExpiry = {}
                /\ skipped' = skipped \cup {namespace.id}
                /\ pc' = IF Tail(namespaces) = <<>> THEN "types" ELSE "namespaces"
                /\ UNCHANGED <<calls, counter, annotations, live, notes, lost, retry>>
    /\ namespaces' = Tail(namespaces)
    /\ failed' = failed + Cardinality(failTtl) + Cardinality(failExpiry)
    /\ UNCHANGED <<now, cfg, types, already_seen, filtered_resources, listed, dry, fIn, fOut>>

\* mutant: a failed listing is not caught
AfterListing_raises(i, listing_fails) ==
    IF listing_fails THEN "raised"
    ELSE IF i = Len(resource_types) THEN "resources" ELSE "types"

\* line 358 after lines 391-392: a failed listing is logged and the loop goes on
\* with resource type i + 1
AfterListing(i, listing_fails) ==
    IF i = Len(resource_types) THEN "resources" ELSE "types"

\* lines 358-394, one iteration: the resource type types is listed
ListType(listing_fails) ==
    /\ pc = "types"
    /\ types <= Len(resource_types)
    /\ listing_fails => failed < MaxFail
    /\ LET type == resource_types[types]
           ids == ListIds(cfg, type)
           resources == [i \in 1..Len(ids) |-> Resource(ids[i], annotations[ids[i]], type.version)]
           st == Scan(cfg, resources, [seen |-> already_seen, filtered |-> filtered_resources,
                                       skipped |-> skipped])
       IN  IF ~TypeInScope(cfg, type)
           THEN /\ ~listing_fails
                /\ listed' = [listed EXCEPT ![types] = "skipped"]
                /\ UNCHANGED <<already_seen, filtered_resources, skipped>>
           ELSE IF listing_fails
           THEN /\ ListingCalls(cfg) > 0
                /\ listed' = [listed EXCEPT ![types] = "failed"]
                /\ UNCHANGED <<already_seen, filtered_resources, skipped>>
           ELSE /\ listed' = [listed EXCEPT ![types] = "ok"]
                /\ already_seen' = st.seen
                /\ filtered_resources' = st.filtered
                /\ skipped' = st.skipped
    /\ types' = types + 1
    /\ pc' = AfterListing(types, listing_fails)
    /\ failed' = IF listing_fails THEN failed + 1 ELSE failed
    /\ UNCHANGED <<now, annotations, live, notes, lost, retry, cfg, counter, namespaces, calls, dry, fIn, fOut>>

\* lines 396-413, one iteration
HandleResource(failTtl, failExpiry) ==
    /\ pc = "resources"
    /\ filtered_resources # <<>>
    /\ failed + Cardinality(failTtl) + Cardinality(failExpiry) <= MaxFail
    /\ LET resource == Head(filtered_resources)
           h == Handle(cfg, resource, now, resource.id \notin live, failTtl, failExpiry)
       IN  /\ calls' = calls \o h.calls
           /\ counter' = Update(counter, h.counters)
           /\ Apply(h.calls)
           /\ pc' = IF h.raised THEN "raised" ELSE "resources"
    /\ filtered_resources' = Tail(filtered_resources)
    /\ failed' = failed + Cardinality(failTtl) + Cardinality(failExpiry)
    /\ UNCHANGED <<now, cfg, namespaces, types, already_seen, listed, skipped, dry, fIn, fOut>>

\* lines 414-416
Return ==
    /\ pc = "resources"
    /\ filtered_resources = <<>>
    /\ pc' = "returned"
    /\ dry' = IF cfg.dry_run /\ \A i \in 1..Len(resource_types) : listed[i] # "failed"
              THEN <<[cfg |-> cfg, counter |-> counter]>>
              ELSE dry
    /\ UNCHANGED <<now, annotations, live, notes, lost, retry, cfg, counter, namespaces, types,
                   already_seen, filtered_resources, calls, listed, skipped, failed, fIn, fOut>>

Next ==
    \/ Tick
    \/ \E c \in Configs, lookup_fails \in BOOLEAN : StartRun(c, lookup_fails)
    \/ \E failTtl, failExpiry \in Failures : HandleNamespace(failTtl, failExpiry)
    \/ \E listing_fails \in BOOLEAN : ListType(listing_fails)
    \/ \E failTtl, failExpiry \in Failures : HandleResource(failTtl, failExpiry)
    \/ Return
    \/ Finish

Spec == Init /\ [][Next]_vars

\* the same, with every dry run that returned followed by its twin
NextDry ==
    \/ Next
    \/ \E lookup_fails \in BOOLEAN : Twin(lookup_fails)

DrySpec == Init /\ [][NextDry]_vars

----------------------------------------------------------------------------
(* The Resource Filter on its own                                          *)

\* Resources handed to the filter: a namespace, namespaced objects, and a
\* cluster-scoped object (its namespace is None)
FilterResources ==
    {Resource(o, Annotated(ABSENT, ABSENT, ABSENT), "v1") : o \in ObjIds}
    \cup {[id |-> 0, kind |-> "Node", endpoint |-> "nodes", namespace |-> None, name |-> "n1",
           version |-> "v1", creationTimestamp |-> "T0",
           annotations |-> Annotated(ABSENT, ABSENT, ABSENT)]}

ResourceWords == {"all", "namespaces", "deployments", "nodes"}
NamespaceWords == {"all", "n1", "n2"}

FilterInit ==
    /\ fIn \in [resource : FilterResources,
                include_resources : SUBSET ResourceWords, exclude_resources : SUBSET ResourceWords,
                include_namespaces : SUBSET NamespaceWords, exclude_namespaces : SUBSET NamespaceWords]
    /\ fOut = <<>>
    /\ now = 0
    /\ annotations = [o \in ObjIds |-> Annotated(ABSENT, ABSENT, ABSENT)]
    /\ live = ObjIds
    /\ notes = [o \in ObjIds |-> 0]
    /\ lost = {}
    /\ retry = {}
    /\ pc = "idle"
    /\ cfg = CHOOSE c \in Configs : TRUE
    /\ counter = ZeroCounter
    /\ namespaces = <<>>
    /\ types = 1
    /\ already_seen = {}
    /\ filtered_resources = <<>>
    /\ calls = <<>>
    /\ listed = Unlisted
    /\ skipped = {}
    /\ failed = 0
    /\ dry = <<>>

\* matches_resource_filter is called
ApplyFilter ==
    /\ fOut = <<>>
    /\ fOut' = <<matches_resource_filter(fIn.resource, fIn.include_resources, fIn.exclude_resources,
                                         fIn.include_namespaces, fIn.exclude_namespaces)>>
    /\ UNCHANGED <<now, annotations, live, notes, lost, retry, pc, cfg, counter, namespaces, types,
                   already_seen, filtered_resources, calls, listed, skipped, failed, dry, fIn>>

FilterSpec == FilterInit /\ [][ApplyFilter]_vars

----------------------------------------------------------------------------
(* The TTL Decision Engine on its own, with any ordered rule list          *)

\* The rules a rule list is made of
RulePool ==
    {[id |-> "a", ttl |-> "1s", endpoints |-> {"pods"}],
     [id |-> "b", ttl |-> "3s", endpoints |-> {"pods", "deployments"}],
     [id |-> "c", ttl |-> "2s", endpoints |-> {"deployments", "namespaces"}]}

\* The rule lists: the rules of a subset of the pool, in any order
RuleLists ==
    UNION {{rules \in [1..n -> RulePool] : \A i, j \in 1..n : rules[i] = rules[j] => i = j}
           : n \in 0..Cardinality(RulePool)}

\* The resources handed to the engine
RuleResources == UNION {{Resource(o, a, "v1") : a \in InitialAnnotations(o)} : o \in ObjIds}

RuleInit ==
    /\ fIn \in [resource : RuleResources, rules : RuleLists, t : Times,
                delete_notification : LeadTimes]
    /\ fOut = <<>>
    /\ now = 0
    /\ annotations = [o \in ObjIds |-> Annotated(ABSENT, ABSENT, ABSENT)]
    /\ live = ObjIds
    /\ notes = [o \in ObjIds |-> 0]
    /\ lost = {}
    /\ retry = {}
    /\ pc = "idle"
    /\ cfg = CHOOSE c \in Configs : TRUE
    /\ counter = ZeroCounter
    /\ namespaces = <<>>
    /\ types = 1
    /\ already_seen = {}
    /\ filtered_resources = <<>>
    /\ calls = <<>>
    /\ listed = Unlisted
    /\ skipped = {}
    /\ failed = 0
    /\ dry = <<>>

\* handle_resource_on_ttl is called
ApplyRules ==
    /\ fOut = <<>>
    /\ fOut' = <<handle_resource_on_ttl(fIn.resource, fIn.rules, fIn.delete_notification,
                                        None, FALSE, fIn.t, FALSE, {})>>
    /\ UNCHANGED <<now, annotations, live, notes, lost, retry, pc, cfg, counter, namespaces, types,
                   already_seen, filtered_resources, calls, listed, skipped, failed, dry, fIn>>

RuleSpec == RuleInit /\ [][ApplyRules]_vars

----------------------------------------------------------------------------
(* Properties                                                              *)

\* The namespace the filter judges a resource by (spec 4.1: ns)
FilterNs(resource) == IF resource.kind = "Namespace" THEN resource.name ELSE resource.namespace

\* C1: matches_resource_filter returns false for a resource whose namespace is
\* null, and otherwise exactly resource_included AND NOT resource_excluded AND
\* namespace_included AND NOT namespace_excluded of spec 4.1; an "all"
\* exclusion is overridden by an explicit inclusion of the kind or namespace,
\* and not by an "all" inclusion.
C1_FilterFormula ==
    fOut # <<>> =>
        LET kind == fIn.resource.endpoint
            ns == FilterNs(fIn.resource)
            resource_included == "all" \in fIn.include_resources \/ kind \in fIn.include_resources
            namespace_included == "all" \in fIn.include_namespaces \/ ns \in fIn.include_namespaces
            resource_excluded == ("all" \in fIn.exclude_resources /\ kind \notin fIn.include_resources)
                                 \/ kind \in fIn.exclude_resources
            namespace_excluded == ("all" \in fIn.exclude_namespaces /\ ns \notin fIn.include_namespaces)
                                  \/ ns \in fIn.exclude_namespaces
        IN  /\ ns = None => fOut[1] = FALSE
            /\ ns # None => fOut[1] = (resource_included /\ ~resource_excluded
                                       /\ namespace_included /\ ~namespace_excluded)
            \* a blanket exclusion stands against a blanket inclusion
            /\ "all" \in fIn.exclude_resources /\ kind \notin fIn.include_resources => fOut[1] = FALSE
            /\ "all" \in fIn.exclude_namespaces /\ ns \notin fIn.include_namespaces => fOut[1] = FALSE
            \* and yields to an explicit inclusion
            /\ ns # None /\ fIn.exclude_resources = {"all"} /\ fIn.exclude_namespaces = {"all"}
               /\ kind \in fIn.include_resources /\ ns \in fIn.include_namespaces
               => fOut[1] = TRUE

\* C1 witness: the filter accepted a resource whose kind and namespace are both
\* under an "all" exclusion and explicitly included, "all" being included too
C1_Witness ==
    /\ fOut = <<TRUE>>
    /\ "all" \in fIn.exclude_resources /\ "all" \in fIn.exclude_namespaces
    /\ "all" \in fIn.include_resources /\ "all" \in fIn.include_namespaces
    /\ fIn.resource.kind = "Deployment"

----------------------------------------------------------------------------
(* The run's log                                                           *)

Entries == 1..Len(calls)

\* the engine `path` was entered for object o in this run
Invoked(path, o) ==
    \E i \in Entries : calls[i].op = "invoke" /\ calls[i].path = path /\ calls[i].obj = o

\* the engine `path` handed object o to the Deletion Executor
DeleteBy(path, o) ==
    \E i \in Entries : calls[i].op = "delete" /\ calls[i].path = path /\ calls[i].obj = o

\* the engine `path` handed object o to Notify
NotifyBy(path, o) ==
    \E i \in Entries : /\ calls[i].op = "event" /\ calls[i].reason = "DeleteNotification"
                       /\ calls[i].path = path /\ calls[i].obj = o

\* a call that changes the cluster: a delete, an event creation or an update
\* that was sent
Mutating(i) == calls[i].op \in {"delete", "event", "update"} /\ calls[i].sent

\* spec 4.1 for object o under the arguments c
Accepted(c, o) ==
    LET kind == Meta[o].endpoint
        ns == IF Meta[o].kind = "Namespace" THEN Meta[o].name ELSE Meta[o].namespace
    IN  /\ ns # None
        /\ "all" \in c.include_resources \/ kind \in c.include_resources
        /\ ~(("all" \in c.exclude_resources /\ kind \notin c.include_resources)
             \/ kind \in c.exclude_resources)
        /\ "all" \in c.include_namespaces \/ ns \in c.include_namespaces
        /\ ~(("all" \in c.exclude_namespaces /\ ns \notin c.include_namespaces)
             \/ ns \in c.exclude_namespaces)

\* C2: in a run, no entry of the log (no engine invocation, hence no delete,
\* event creation or flag update) is for an object the Resource Filter
\* rejects, and the counter is the tally of what the engines returned for the
\* objects they were invoked on: a rejected object adds to no counter.
C2_RejectedUntouched ==
    /\ \A i \in Entries : Accepted(cfg, calls[i].obj)
    /\ \A o \in skipped : ~Accepted(cfg, o) /\ \A i \in Entries : calls[i].obj # o
    /\ \A l \in Labels :
          counter[l] = Cardinality({i \in Entries : calls[i].op = "return" /\ l \in calls[i].labels})

\* C2 witness: a run returned in which the filter rejected the pod although
\* rule a's TTL of the pod had elapsed, and sent no call
C2_Witness ==
    /\ pc = "returned"
    /\ 4 \in skipped /\ 4 \in live
    /\ now = 3
    /\ ~cfg.dry_run
    /\ \A i \in Entries : ~Mutating(i)

\* The TTL of object o: its annotation, or that of the first rule matching it
EffectiveTtl(o) ==
    LET own == annotations[o][TTL_ANNOTATION]
        matching == {i \in 1..Len(cfg.rules) : Meta[o].endpoint \in cfg.rules[i].endpoints}
    IN  IF own # ABSENT /\ own # "" THEN own
        ELSE IF matching = {} THEN ""
        ELSE cfg.rules[CHOOSE i \in matching : \A j \in matching : i <= j].ttl

\* The later of the creation time and a validly parsed deployment-time annotation
DeploymentTime(o) ==
    LET created == parse_time(Meta[o].creationTimestamp).val
        deployed == IF cfg.deployment_time_annotation = None THEN ValueError
                    ELSE parse_time(annotations[o][cfg.deployment_time_annotation])
    IN  IF deployed.ok /\ deployed.val > created THEN deployed.val ELSE created

\* the TTL of o parses to a duration > 0 that now - deployment_time exceeds
TtlDue(o) ==
    /\ parse_ttl(EffectiveTtl(o)).ok
    /\ parse_ttl(EffectiveTtl(o)).val > 0
    /\ now - DeploymentTime(o) > parse_ttl(EffectiveTtl(o)).val

\* the expiry annotation of o parses and now is later
ExpiryDue(o) ==
    /\ parse_expiry(annotations[o][EXPIRY_ANNOTATION]).ok
    /\ now > parse_expiry(annotations[o][EXPIRY_ANNOTATION]).val

\* C3: the TTL engine hands an object to the Deletion Executor exactly when its
\* effective TTL parses to a duration > 0 and now - deployment_time is strictly
\* greater, the expiry engine exactly when the expiry annotation parses and now
\* is strictly later; an object at its deadline, or without TTL, expiry and
\* matching rule, is not deleted.
C3_DeleteExactlyWhenDue ==
    \A o \in ObjIds :
        /\ DeleteBy("ttl", o) <=> Invoked("ttl", o) /\ TtlDue(o)
        /\ DeleteBy("expiry", o) <=> Invoked("expiry", o) /\ ExpiryDue(o)

\* C3 witness: in one run the deployment, past its deadline, was deleted by the
\* TTL engine, and the pod, exactly at its deadline, was not
C3_Witness ==
    /\ pc = "returned"
    /\ DeleteBy("ttl", 3) /\ now - DeploymentTime(3) > parse_ttl(EffectiveTtl(3)).val
    /\ Invoked("ttl", 4) /\ ~DeleteBy("ttl", 4)
    /\ now - DeploymentTime(4) = parse_ttl(EffectiveTtl(4)).val

\* C4 (as claimed): within one run at most one delete call is issued for an
\* object, and the object adds at most 1 to its <kind>-deleted counter.
C4_AtMostOneDelete ==
    \A o \in ObjIds :
        /\ Cardinality({i \in Entries : calls[i].op = "delete" /\ calls[i].sent /\ calls[i].obj = o}) <= 1
        /\ Cardinality({i \in Entries : /\ calls[i].op = "return" /\ calls[i].obj = o
                                        /\ Label(Meta[o].endpoint, "deleted") \in calls[i].labels}) <= 1

\* the entries the step adds to the log
NewEntries == (Len(calls) + 1)..Len(calls')

IsFlagged(o) == annotations[o][NOTIFIED_ANNOTATION] # ABSENT

Due(path, o) == IF path = "ttl" THEN TtlDue(o) ELSE ExpiryDue(o)

\* C5: in no step is an object that bears the notified flag handed to Notify
\* (by either engine, dry run or not), and an engine entered for such an object
\* whose deadline has passed hands it to the Deletion Executor.
C5_FlaggedStep ==
    \A o \in ObjIds :
        IsFlagged(o) =>
            /\ \A i \in NewEntries :
                  calls'[i].obj = o =>
                      ~(calls'[i].op = "event" /\ calls'[i].reason = "DeleteNotification")
            /\ \A path \in {"ttl", "expiry"} :
                  /\ \E i \in NewEntries : /\ calls'[i].op = "invoke"
                                           /\ calls'[i].path = path /\ calls'[i].obj = o
                  /\ Due(path, o)
                  => \E i \in NewEntries : /\ calls'[i].op = "delete"
                                           /\ calls'[i].path = path /\ calls'[i].obj = o

C5_NotifiedOnceStillDeleted == [][C5_FlaggedStep]_vars

\* C5 witness: a run deleted the deployment, which bore the flag of an earlier
\* run's notification, and did not notify it
C5_Witness ==
    /\ pc = "returned"
    /\ IsFlagged(3) /\ notes[3] = 1
    /\ DeleteBy("ttl", 3) /\ 3 \notin live
    /\ ~NotifyBy("ttl", 3) /\ ~NotifyBy("expiry", 3)

\* C6: an object whose flag updates all succeeded has had at most one
\* DeleteNotification event, and bears the flag once it has had one: the flag is
\* set before the next decision, so TTL and expiry do not both notify in one run.
C6_NotifiedAtMostOnce ==
    \A o \in ObjIds \ lost :
        /\ notes[o] <= 1
        /\ notes[o] = 1 => IsFlagged(o)

\* C6 witness: the TTL engine notified the deployment, and the expiry engine,
\* entered for it inside the notification window of its expiry, did not
C6_Witness ==
    /\ pc = "returned"
    /\ notes[3] = 1 /\ 3 \notin lost
    /\ NotifyBy("ttl", 3) /\ ~NotifyBy("expiry", 3)
    /\ Invoked("expiry", 3)
    /\ parse_expiry(annotations[3][EXPIRY_ANNOTATION]).ok
    /\ now <= parse_expiry(annotations[3][EXPIRY_ANNOTATION]).val
    /\ now > parse_expiry(annotations[3][EXPIRY_ANNOTATION]).val - cfg.delete_notification

NoListingFailed == \A i \in 1..Len(resource_types) : listed[i] # "failed"

\* C7: a dry run sends no delete, event creation or update and leaves the
\* objects as they are, and the counter of the same call with dry_run off, from
\* the same cluster state and time and with the same listings, equals the dry
\* run's.
C7_DryStep ==
    /\ cfg'.dry_run => \A i \in 1..Len(calls') : ~calls'[i].sent
    /\ cfg.dry_run /\ pc \in {"namespaces", "types", "resources"}
       => annotations' = annotations /\ live' = live /\ notes' = notes
    /\ pc' = "returned" /\ ~cfg'.dry_run /\ dry' # <<>> /\ NoListingFailed'
       => counter' = dry'[1].counter

C7_DryRunFrame == [][C7_DryStep]_vars

\* C7 witness: the twin of a dry run returned the dry run's counter, having
\* deleted an object the dry run had only counted as deleted
C7_Witness ==
    /\ pc = "returned"
    /\ ~cfg.dry_run /\ dry # <<>>
    /\ counter = dry[1].counter
    /\ DeleteDone(calls)
    /\ \E o \in ObjIds : NotifyBy("ttl", o) \/ NotifyBy("expiry", o)

\* C8 (as claimed): for every object the TTL engine is entered for, the expiry
\* engine is entered next, whatever the TTL engine did.
C8_ExpiryAlwaysFollows ==
    \A o \in ObjIds : Invoked("ttl", o) => Invoked("expiry", o)

\* C9 (as claimed): no failing cluster-API call aborts the run.
C9_RunNeverAborts == pc # "raised"

KindOf(i) == resource_types[i].kind

\* the kind-level check of spec 4.8 step 3 for resource type i
InScope(i) ==
    ("all" \in cfg.include_resources /\ resource_types[i].endpoint \notin cfg.exclude_resources)
    \/ resource_types[i].endpoint \in cfg.include_resources

\* the filter-passing objects the listing of resource type j returned
Passing(j) ==
    {o \in ObjIds : /\ Meta[o].kind = KindOf(j) /\ Accepted(cfg, o)
                    /\ o \in live \/ Invoked("ttl", o)}

Queued(o) == \E k \in 1..Len(filtered_resources) : filtered_resources[k].id = o

TypeIds == 1..Len(resource_types)

\* C10 (as claimed): when a run returns after a failed listing of a kind, no
\* object of that kind was processed in it, and every other kind passing the
\* kind-level check was listed and its filter-passing objects were evaluated by
\* both engines.
C10_AsClaimed ==
    pc = "returned" =>
        \A i \in TypeIds :
            listed[i] = "failed" =>
                /\ \A o \in ObjIds : Meta[o].kind = KindOf(i) => ~Invoked("ttl", o)
                /\ \A j \in TypeIds :
                      KindOf(j) # KindOf(i) /\ InScope(j) =>
                          /\ listed[j] \in {"ok", "failed"}
                          /\ listed[j] = "ok" =>
                                \A o \in Passing(j) : Invoked("ttl", o) /\ Invoked("expiry", o)

\* C10 (amended): after a failed listing call of a resource type, an object of
\* its kind is processed only if another listing of that kind (another API
\* version) succeeded; the failure does not end the run; every other resource
\* type passing the kind-level check is listed and its filter-passing objects
\* are queued for the engines, and have been evaluated by both when the run
\* returns.
C10_FailedListingSkipsTypeOnly ==
    \A i \in TypeIds :
        listed[i] = "failed" =>
            /\ \A o \in ObjIds :
                  Meta[o].kind = KindOf(i) /\ Invoked("ttl", o)
                  => \E j \in TypeIds : KindOf(j) = KindOf(i) /\ listed[j] = "ok"
            /\ pc = "raised" => types > Len(resource_types)
            /\ types > Len(resource_types) =>
                  \A j \in TypeIds \ {i} :
                      InScope(j) =>
                          /\ listed[j] \in {"ok", "failed"}
                          /\ listed[j] = "ok" =>
                                \A o \in Passing(j) :
                                    /\ Queued(o) \/ Invoked("ttl", o)
                                    /\ pc = "returned" => Invoked("ttl", o) /\ Invoked("expiry", o)

\* C10 witness: the listing of extensions/v1beta1 deployments failed, and the
\* run returned having evaluated the deployment (listed as apps/v1) and the pod
C10_Witness ==
    /\ pc = "returned"
    /\ listed = <<"failed", "ok", "ok">>
    /\ Invoked("ttl", 3) /\ Invoked("expiry", 3)
    /\ Invoked("ttl", 4) /\ Invoked("expiry", 4)

\* a delete call that was sent and failed
FailedDelete(e) == e.op = "delete" /\ e.sent /\ ~e.ok

\* C11: a failed delete call is not fatal: the engine that made it returns, the
\* expiry engine is entered for the same object after a failed delete of the
\* TTL engine, and the run does not end on it (an exception that ends the run
\* comes from an update); the object stays in the cluster, and a later run with
\* the same arguments that enters the engine for it issues the delete again.
C11_FailedDeleteStep ==
    /\ \A i \in NewEntries :
          FailedDelete(calls'[i]) =>
              /\ i < Len(calls')
              /\ calls'[i + 1].op = "return"
              /\ calls'[i + 1].path = calls'[i].path /\ calls'[i + 1].obj = calls'[i].obj
              /\ calls'[i].path = "ttl" =>
                    /\ i + 2 <= Len(calls')
                    /\ calls'[i + 2].op = "invoke" /\ calls'[i + 2].path = "expiry"
                    /\ calls'[i + 2].obj = calls'[i].obj
              /\ pc' = "raised" => calls'[Len(calls')].op = "update"
              /\ pc' \in {"raised", "namespaces", "types", "resources"}
    /\ \A r \in retry :
          /\ cfg = r.cfg
          /\ \E i \in NewEntries : /\ calls'[i].op = "invoke"
                                   /\ calls'[i].path = r.path /\ calls'[i].obj = r.obj
          => \E i \in NewEntries : /\ calls'[i].op = "delete" /\ calls'[i].sent
                                   /\ calls'[i].path = r.path /\ calls'[i].obj = r.obj

C11_FailedDeleteNotFatal == [][C11_FailedDeleteStep]_vars

\* C11 witness: a run returned in which the delete of an object succeeded that
\* had failed in an earlier run with the same arguments
C11_Witness ==
    /\ pc = "returned"
    /\ \A i \in Entries : ~FailedDelete(calls[i])
    /\ \E r \in retry : r.cfg = cfg /\ DeleteBy(r.path, r.obj) /\ r.obj \notin live

\* a DeleteNotification event whose creation was sent and failed
FailedNotification(e) ==
    e.op = "event" /\ e.reason = "DeleteNotification" /\ e.sent /\ ~e.ok

\* C12: when the creation of a DeleteNotification event fails, the update that
\* writes the notified flag is sent next for the same object; if that update
\* succeeds the object bears the flag after the step, nothing more is notified
\* for it in the run, and no step notifies an object that bears the flag.
C12_FailedEventStep ==
    /\ \A i \in NewEntries :
          FailedNotification(calls'[i]) =>
              /\ i < Len(calls')
              /\ calls'[i + 1].op = "update" /\ calls'[i + 1].sent
              /\ calls'[i + 1].obj = calls'[i].obj /\ calls'[i + 1].path = calls'[i].path
              /\ calls'[i + 1].ok =>
                    /\ annotations'[calls'[i].obj][NOTIFIED_ANNOTATION] = "yes"
                    /\ \A j \in (i + 1)..Len(calls') :
                          calls'[j].obj = calls'[i].obj =>
                              ~(calls'[j].op = "event" /\ calls'[j].reason = "DeleteNotification")
    /\ \A i \in NewEntries :
          calls'[i].op = "event" /\ calls'[i].reason = "DeleteNotification"
          => ~IsFlagged(calls'[i].obj)

C12_FailedEventStillFlags == [][C12_FailedEventStep]_vars

\* C12 witness: a run returned in which the event of the TTL engine's
\* notification failed, the flag was written, and the expiry engine, entered
\* inside its notification window, did not notify
C12_Witness ==
    /\ pc = "returned"
    /\ \E i \in Entries :
          /\ FailedNotification(calls[i]) /\ calls[i].path = "ttl"
          /\ calls[i + 1].op = "update" /\ calls[i + 1].ok
          /\ IsFlagged(calls[i].obj)
          /\ Invoked("expiry", calls[i].obj) /\ ~NotifyBy("expiry", calls[i].obj)
          /\ parse_expiry(annotations[calls[i].obj][EXPIRY_ANNOTATION]).ok
          /\ now > parse_expiry(annotations[calls[i].obj][EXPIRY_ANNOTATION]).val - cfg.delete_notification

\* the identity of object o
Identity(o) == <<Meta[o].kind, Meta[o].namespace, Meta[o].name>>

\* the positions of filtered_resources
QueueIds == 1..Len(filtered_resources)

\* the first resource type of the kind of o whose listing succeeded, or 0
FirstListing(o) ==
    LET ok == {i \in TypeIds : KindOf(i) = Meta[o].kind /\ listed[i] = "ok"}
    IN  IF ok = {} THEN 0 ELSE CHOOSE i \in ok : \A j \in ok : i <= j

\* C13: in a run, no two queued resources have the same identity (kind,
\* namespace, name), a queued resource is the occurrence of the first listing
\* that returned it, and has not been handed to the engines before; each engine
\* is entered at most once per object, and an object adds at most 1 to
\* resources-processed.
C13_OncePerIdentity ==
    /\ \A k, l \in QueueIds :
          Identity(filtered_resources[k].id) = Identity(filtered_resources[l].id) => k = l
    /\ \A k \in QueueIds :
          LET resource == filtered_resources[k]
          IN  /\ object_id(resource) \in already_seen
              /\ ~Invoked("ttl", resource.id)
              /\ FirstListing(resource.id) # 0
              /\ resource.version = resource_types[FirstListing(resource.id)].version
    /\ \A o \in ObjIds, path \in {"ttl", "expiry"} :
          Cardinality({i \in Entries : /\ calls[i].op = "invoke"
                                        /\ calls[i].path = path /\ calls[i].obj = o}) <= 1
    /\ counter[PROCESSED] <= Cardinality({o \in ObjIds : Invoked("ttl", o)})

\* C13 witness: both listings of deployments succeeded, and the run returned
\* having counted the deployment, which carries a TTL, once
C13_Witness ==
    /\ pc = "returned"
    /\ listed = <<"ok", "ok", "ok">>
    /\ Invoked("ttl", 3) /\ Invoked("ttl", 4)
    /\ counter[Label("deployments", "with-ttl")] = 1
    /\ counter[PROCESSED] = Cardinality({o \in ObjIds : Invoked("ttl", o)})

\* the calls of rule.matches in the log of an engine, in order
Consultations(log) == SelectSeq(log, LAMBDA e : e.op = "matches")

\* the rule-<id>-matches labels among `labels`
RuleLabels(labels) == {l \in labels : l[1] = "rule"}

\* the index of the first rule of `rules` whose predicate accepts the resource,
\* or 0
FirstAccepting(rules, resource) ==
    LET accepting == {i \in 1..Len(rules) : resource.endpoint \in rules[i].endpoints}
    IN  IF accepting = {} THEN 0 ELSE CHOOSE i \in accepting : \A j \in accepting : i <= j

\* C14: for a resource without TTL annotation and any rule list, the rules are
\* consulted in list order up to and including the first whose predicate is
\* true and no further; the engine counts rule-<id>-matches for that rule only
\* and decides with its TTL; when no rule matches, all are consulted, no rule
\* is counted and the TTL path does nothing.
C14_FirstRuleWins ==
    fOut # <<>> /\ fIn.resource.annotations[TTL_ANNOTATION] = ABSENT =>
        LET rules == fIn.rules
            resource == fIn.resource
            first == FirstAccepting(rules, resource)
            result == fOut[1]
            consulted == Consultations(result.calls)
            deleted == \E i \in 1..Len(result.calls) : result.calls[i].op = "delete"
            age == fIn.t - parse_time(resource.creationTimestamp).val
        IN  /\ first = 0 =>
                  /\ Len(consulted) = Len(rules)
                  /\ result.counter = {PROCESSED}
                  /\ ~deleted
            /\ first > 0 =>
                  /\ Len(consulted) = first
                  /\ RuleLabels(result.counter) = {Label("rule", rules[first].id)}
                  /\ Label(resource.endpoint, "with-ttl") \in result.counter
                        <=> parse_ttl(rules[first].ttl).val > 0
                  /\ deleted <=> age > parse_ttl(rules[first].ttl).val
            /\ \A k \in 1..Len(consulted) :
                  /\ consulted[k].reason = rules[k].id
                  /\ consulted[k].ok <=> k = first

\* C14 witness: rule b (3s) precedes rule a (1s), both match the pod; the pod
\* is older than 1s and not older than 3s, and is not deleted
C14_Witness ==
    /\ fOut # <<>>
    /\ fIn.resource.annotations[TTL_ANNOTATION] = ABSENT
    /\ fIn.resource.kind = "Pod"
    /\ Len(fIn.rules) >= 2 /\ fIn.rules[1].id = "b" /\ fIn.rules[2].id = "a"
    /\ fIn.t = 3
    /\ RuleLabels(fOut[1].counter) = {Label("rule", "b")}
    /\ \A i \in 1..Len(fOut[1].calls) : fOut[1].calls[i].op # "delete"

\* object o has neither TTL nor expiry annotation, and no rule matches it
Plain(o) ==
    /\ annotations[o][TTL_ANNOTATION] = ABSENT
    /\ annotations[o][EXPIRY_ANNOTATION] = ABSENT
    /\ \A i \in 1..Len(cfg.rules) : Meta[o].endpoint \notin cfg.rules[i].endpoints

\* C15: when a run returns, resources-processed is the number of objects that
\* passed the Resource Filter and were handed to the engines; an object with
\* neither TTL nor expiry annotation and no matching rule gets resources-
\* processed from the TTL engine, nothing from the expiry engine, and no delete.
C15_ProcessedCount ==
    /\ pc = "returned" =>
          counter[PROCESSED] = Cardinality({o \in ObjIds : Accepted(cfg, o) /\ Invoked("ttl", o)})
    /\ \A i \in Entries :
          Plain(calls[i].obj) =>
              /\ calls[i].op \notin {"delete", "event", "update"}
              /\ calls[i].op = "return" =>
                    calls[i].labels = IF calls[i].path = "ttl" THEN {PROCESSED} ELSE {}

\* C15 witness: a run returned having processed the four objects, namespace
\* n2 among them, which is plain
C15_Witness ==
    /\ pc = "returned"
    /\ counter[PROCESSED] = 4
    /\ Plain(2) /\ Invoked("ttl", 2) /\ Invoked("expiry", 2)
    /\ \E l \in Labels \ {PROCESSED} : counter[l] > 0

\* C16 (as claimed): for an object that carries a TTL annotation, whatever its
\* value, the TTL engine does not call the context hook or consult a rule and
\* counts no rule-<id>-matches; when the value is malformed or parses to a
\* duration <= 0 the TTL engine makes no call at all.
C16_AnnotationAlone ==
    \A i \in Entries :
        LET o == calls[i].obj
            own == annotations[o][TTL_ANNOTATION]
        IN  calls[i].path = "ttl" /\ own # ABSENT =>
                /\ calls[i].op \notin {"context", "matches"}
                /\ calls[i].op = "return" => RuleLabels(calls[i].labels) = {}
                /\ ~(parse_ttl(own).ok /\ parse_ttl(own).val > 0)
                   => calls[i].op \in {"invoke", "return"}

\* C17: an engine entry for an object whose effective TTL parses to a duration
\* <= 0 is followed by no delete, event or update of the TTL engine, however
\* old the object is; the TTL engine returns <kind>-with-ttl exactly when the
\* effective TTL parses to a duration > 0.
C17_NonPositiveTtlDisables ==
    \A i \in Entries :
        LET o == calls[i].obj
            seconds == parse_ttl(EffectiveTtl(o))
        IN  calls[i].path = "ttl" =>
                /\ seconds.ok /\ seconds.val <= 0 =>
                      calls[i].op \notin {"delete", "event", "update"}
                /\ calls[i].op = "return" =>
                      (Label(Meta[o].endpoint, "with-ttl") \in calls[i].labels
                         <=> seconds.ok /\ seconds.val > 0)

\* C17 witness: with notifications on, a run at the latest time returned that
\* left the deployment, whose TTL annotation parses to a duration <= 0, alone
C17_Witness ==
    /\ pc = "returned"
    /\ now = MaxTime
    /\ ~cfg.dry_run /\ cfg.delete_notification # 0
    /\ parse_ttl(annotations[3][TTL_ANNOTATION]).ok
    /\ parse_ttl(annotations[3][TTL_ANNOTATION]).val <= 0
    /\ Invoked("ttl", 3) /\ 3 \in live
    /\ counter[Label("deployments", "with-ttl")] = 0
    /\ counter[PROCESSED] > 0

\* the deadline of object o on a path is defined: the TTL parses to a duration
\* > 0, the expiry annotation parses
HasDeadline(path, o) ==
    IF path = "ttl"
    THEN parse_ttl(EffectiveTtl(o)).ok /\ parse_ttl(EffectiveTtl(o)).val > 0
    ELSE parse_expiry(annotations[o][EXPIRY_ANNOTATION]).ok

Deadline(path, o) ==
    IF path = "ttl"
    THEN DeploymentTime(o) + parse_ttl(EffectiveTtl(o)).val
    ELSE parse_expiry(annotations[o][EXPIRY_ANNOTATION]).val

\* C18: a step in which an engine hands an object to Notify is a step of a run
\* with a non-zero lead time, for an object that has a deadline on that path
\* which has not passed, after deadline - lead time, and that did not bear the
\* notified flag; the same engine does not delete the object in that step; in
\* a run with lead time zero no event is created and no flag is written.
C18_NotifyStep ==
    /\ \A i \in NewEntries :
          calls'[i].op = "event" /\ calls'[i].reason = "DeleteNotification" =>
              LET o == calls'[i].obj
                  path == calls'[i].path
              IN  /\ cfg.delete_notification # 0
                  /\ HasDeadline(path, o)
                  /\ now <= Deadline(path, o)
                  /\ now > Deadline(path, o) - cfg.delete_notification
                  /\ ~IsFlagged(o)
                  /\ \A j \in NewEntries :
                        ~(calls'[j].op = "delete" /\ calls'[j].path = path /\ calls'[j].obj = o)
    /\ cfg.delete_notification = 0 =>
          \A i \in NewEntries : calls'[i].op \notin {"event", "update"}

C18_NotifyOnlyInWindow == [][C18_NotifyStep]_vars

\* C18 witness: a run returned in which the expiry engine notified the
\* deployment inside the window of its expiry and did not delete it
C18_Witness ==
    /\ pc = "returned"
    /\ ~cfg.dry_run
    /\ NotifyBy("expiry", 3) /\ ~DeleteBy("expiry", 3)
    /\ now > Deadline("expiry", 3) - cfg.delete_notification
    /\ now <= Deadline("expiry", 3)
    /\ notes[3] = 1 /\ IsFlagged(3) /\ 3 \in live

\* C19 (as claimed): in a run with dry-run off, after a delete call was sent for
\* an object, no DeleteNotification event and no update of the notified flag
\* is sent for the same object.
C19_NothingAfterDelete ==
    ~cfg.dry_run =>
        \A i, j \in Entries :
            /\ i < j
            /\ calls[i].op = "delete" /\ calls[i].sent
            /\ calls[j].obj = calls[i].obj
            => ~(/\ calls[j].sent
                 /\ \/ calls[j].op = "update"
                    \/ calls[j].op = "event" /\ calls[j].reason = "DeleteNotification")

\* C20 (as claimed): when a run returns, a namespace object that was in the
\* cluster has been evaluated by the engines exactly when the Resource Filter
\* formula of spec 4.1, with the endpoint "namespaces" as kind and the
\* object's name as namespace, accepts it.
C20_NamespaceScopeAgrees ==
    pc = "returned" =>
        \A o \in ObjIds :
            Meta[o].kind = "Namespace" /\ (o \in live \/ Invoked("ttl", o))
            => (Invoked("ttl", o) <=> Accepted(cfg, o))

====
